---- MODULE Spec2Model ----
(***************************************************************************)
(* Model of the ACIS Trading Python SDK client (acis_trading/client.py,    *)
(* acis_trading/exceptions.py): client construction, the transport         *)
(* adapter _request, the response classifier _handle_response and the      *)
(* public endpoint methods.                                                *)
(*                                                                         *)
(* Python values are records [t, v]:  t is the Python type, v a sequence.  *)
(* A Python str is a sequence of tokens; the token "/" is the slash        *)
(* character and every other token is a slash-free piece of text, so that  *)
(* rstrip("/") and concatenation are computed on the text itself.          *)
(***************************************************************************)
EXTENDS Integers, Sequences, FiniteSets, TLC

\* ------------------------------------------------------------------ bounds
MaxUrlLen == 2
MaxCalls == 2

\* ----------------------------------------------------------- Python values
PyNone == [t |-> "none", v |-> <<>>]
Str(s) == [t |-> "str", v |-> s]
Num(n) == [t |-> "num", v |-> <<n>>]
Dict(pairs) == [t |-> "dict", v |-> pairs]
List(items) == [t |-> "list", v |-> items]
Float(text) == [t |-> "float", v |-> <<text>>]

\* bool(x) for the value kinds the client tests with "not x" / "if x" / "x or y"
Truthy(x) ==
    CASE x.t = "none" -> FALSE
      [] x.t = "num"  -> x.v[1] # 0
      [] OTHER        -> Len(x.v) > 0

\* x or y
Or(x, y) == IF Truthy(x) THEN x ELSE y

HasKey(d, k) == \E i \in 1..Len(d.v) : d.v[i][1] = k

\* d.get(k, default) on a dict
Get(d, k, default) ==
    IF HasKey(d, k)
    THEN d.v[CHOOSE i \in 1..Len(d.v) : d.v[i][1] = k][2]
    ELSE default

\* d[k] = val on a dict (replaces an existing key in place, else appends)
DictSet(d, k, val) ==
    IF HasKey(d, k)
    THEN Dict([i \in 1..Len(d.v) |-> IF d.v[i][1] = k THEN <<k, val>> ELSE d.v[i]])
    ELSE Dict(Append(d.v, <<k, val>>))

\* s.rstrip("/") : drop the whole run of trailing "/" characters
RECURSIVE RStripSlash(_)
RStripSlash(s) ==
    IF Len(s) > 0 /\ s[Len(s)] = "/"
    THEN RStripSlash(SubSeq(s, 1, Len(s) - 1))
    ELSE s

\* str(n) for a non-negative integer, one token per decimal digit
Digit(d) ==
    CASE d = 0 -> "0" [] d = 1 -> "1" [] d = 2 -> "2" [] d = 3 -> "3"
      [] d = 4 -> "4" [] d = 5 -> "5" [] d = 6 -> "6" [] d = 7 -> "7"
      [] d = 8 -> "8" [] d = 9 -> "9"

RECURSIVE IntToStr(_)
IntToStr(n) ==
    IF n < 10 THEN <<Digit(n)>> ELSE Append(IntToStr(n \div 10), Digit(n % 10))

\* ------------------------------------------------------------ JSON decoding
\* response.json() on a tokenised body: the tokens are { } [ ] : , null,
\* the quote character, and pieces of text.  Decodes null, string literals,
\* the empty array and flat objects whose values are null / string / [].
Quote == "\""
Structural == {"{", "}", "[", "]", ":", ",", "null", Quote}

ParseFail == [ok |-> FALSE, val |-> PyNone, next |-> 0]
ParseOk(val, next) == [ok |-> TRUE, val |-> val, next |-> next]

ParseString(s, i) ==
    IF i + 1 <= Len(s) /\ s[i] = Quote /\ s[i + 1] = Quote
    THEN ParseOk(Str(<<>>), i + 2)
    ELSE IF i + 2 <= Len(s) /\ s[i] = Quote /\ s[i + 1] \notin Structural
            /\ s[i + 2] = Quote
         THEN ParseOk(Str(<<s[i + 1]>>), i + 3)
         ELSE ParseFail

ParseScalar(s, i) ==
    IF i > Len(s) THEN ParseFail
    ELSE IF s[i] = "null" THEN ParseOk(PyNone, i + 1)
    ELSE IF s[i] = "[" /\ i + 1 <= Len(s) /\ s[i + 1] = "]"
         THEN ParseOk(List(<<>>), i + 2)
    ELSE ParseString(s, i)

RECURSIVE ParseMembers(_, _, _)
ParseMembers(s, i, acc) ==
    LET key == ParseString(s, i) IN
    IF ~key.ok \/ key.next > Len(s) \/ s[key.next] # ":" THEN ParseFail
    ELSE LET val == ParseScalar(s, key.next + 1) IN
         IF ~val.ok \/ val.next > Len(s) THEN ParseFail
         ELSE LET name == IF Len(key.val.v) = 0 THEN "" ELSE key.val.v[1]
                  d == DictSet(acc, name, val.val) IN
              IF s[val.next] = "}" THEN ParseOk(d, val.next + 1)
              ELSE IF s[val.next] = "," THEN ParseMembers(s, val.next + 1, d)
              ELSE ParseFail

ParseValue(s, i) ==
    IF i > Len(s) THEN ParseFail
    ELSE IF s[i] = "{"
         THEN IF i + 1 <= Len(s) /\ s[i + 1] = "}"
              THEN ParseOk(Dict(<<>>), i + 2)
              ELSE ParseMembers(s, i + 1, Dict(<<>>))
         ELSE ParseScalar(s, i)

\* json.loads(text): ok = FALSE is the ValueError raised on invalid JSON
JsonLoads(text) ==
    LET r == ParseValue(text, 1) IN
    IF r.ok /\ r.next = Len(text) + 1 THEN r ELSE ParseFail

\* --------------------------------------------------------------- exceptions
\* ACISError.__init__(message, status_code=None, response=None); reset_at is
\* an attribute of RateLimitError only and is PyNone on every other class.
ACISError(cls, message, status_code, response) ==
    [cls |-> cls, message |-> message, status_code |-> status_code,
     response |-> response, reset_at |-> PyNone]

AuthenticationError(message, status_code, response) ==
    ACISError("AuthenticationError", message, status_code, response)

RateLimitError(message, reset_at, status_code, response) ==
    [ACISError("RateLimitError", message, status_code, response)
        EXCEPT !.reset_at = reset_at]

ValidationError(message, status_code, response) ==
    ACISError("ValidationError", message, status_code, response)

APIError(message, status_code, response) ==
    ACISError("APIError", message, status_code, response)

\* an exception that is not an ACISError (it carries none of the fields)
ForeignError(cls) == ACISError(cls, PyNone, PyNone, PyNone)

NoExc == ACISError("", PyNone, PyNone, PyNone)
Return(val) == [kind |-> "return", value |-> val, exc |-> NoExc]
Raise(e) == [kind |-> "raise", value |-> PyNone, exc |-> e]
NoOutcome == [kind |-> "none", value |-> PyNone, exc |-> NoExc]

\* ------------------------------------------------------- client construction
DEFAULT_BASE_URL == Str(<<"https:", "/", "/", "acis-trading.com", "/", "api", "/", "v1">>)
DefaultTimeout == 30

NoClient == [exists |-> FALSE, api_key |-> PyNone, base_url |-> <<>>,
             timeout |-> 0, headers |-> <<>>]

\* (base_url or self.DEFAULT_BASE_URL).rstrip("/")
NoStripBaseUrl(base_url) == Or(base_url, DEFAULT_BASE_URL).v
StripOneBaseUrl(base_url) ==
    LET u == Or(base_url, DEFAULT_BASE_URL).v IN
    IF Len(u) > 0 /\ u[Len(u)] = "/" THEN SubSeq(u, 1, Len(u) - 1) ELSE u
NormalizeBaseUrl(base_url) == RStripSlash(Or(base_url, DEFAULT_BASE_URL).v)

\* the three fixed session headers
SessionHeaders(api_key) ==
    << <<"Authorization", Str(<<"Bearer ">> \o api_key.v)>>,
       <<"Content-Type", Str(<<"application/json">>)>>,
       <<"User-Agent", Str(<<"acis-python-sdk/1.0.0">>)>> >>

\* ACISClient.__init__: sent is the number of HTTP requests it issues
ACISClient_init_NoneOnly(api_key, base_url, timeout) ==
    IF api_key = PyNone
    THEN [outcome |-> Raise(AuthenticationError(Str(<<"API key is required">>), PyNone, PyNone)),
          client |-> NoClient, sent |-> 0]
    ELSE [outcome |-> Return(PyNone),
          client |-> [exists |-> TRUE, api_key |-> api_key,
                      base_url |-> NormalizeBaseUrl(base_url),
                      timeout |-> timeout, headers |-> SessionHeaders(api_key)],
          sent |-> 0]
ACISClient_init(api_key, base_url, timeout) ==
    IF ~Truthy(api_key)
    THEN [outcome |-> Raise(AuthenticationError(Str(<<"API key is required">>), PyNone, PyNone)),
          client |-> NoClient, sent |-> 0]
    ELSE [outcome |-> Return(PyNone),
          client |-> [exists |-> TRUE, api_key |-> api_key,
                      base_url |-> NormalizeBaseUrl(base_url),
                      timeout |-> timeout, headers |-> SessionHeaders(api_key)],
          sent |-> 0]

\* ------------------------------------------------------ response classifier
\* try: data = response.json()  except ValueError: data = {"detail": response.text}
DecodeBodyNoFallback(response) ==
    LET decoded == JsonLoads(response.text) IN
    IF decoded.ok THEN decoded.val ELSE PyNone
DecodeBody(response) ==
    LET decoded == JsonLoads(response.text) IN
    IF decoded.ok THEN decoded.val
    ELSE Dict(<< <<"detail", Str(response.text)>> >>)

\* ACISClient._handle_response; data.get raises AttributeError when the
\* decoded body is not a dict
handle_response(response) ==
    LET data == DecodeBody(response)
        status == response.status_code IN
    IF status = 200 THEN Return(data)
    ELSE IF data.t # "dict" THEN Raise(ForeignError("AttributeError"))
    ELSE IF status = 401 THEN
        Raise(AuthenticationError(Get(data, "detail", Str(<<"Invalid API key">>)),
                                  Num(401), data))
    ELSE IF status = 429 THEN
        Raise(RateLimitError(Get(data, "detail", Str(<<"Rate limit exceeded">>)),
                             Get(data, "reset_at", PyNone), Num(429), data))
    ELSE IF status = 422 THEN
        Raise(ValidationError(Get(data, "detail", Str(<<"Validation error">>)),
                              Num(422), data))
    ELSE Raise(APIError(Get(data, "detail", Str(<<"API error: ">> \o IntToStr(status))),
                        Num(status), data))

\* --------------------------------------------------------- transport adapter
\* class hierarchy of requests.exceptions: ConnectTimeout is both a Timeout
\* and a ConnectionError; TooManyRedirects is neither
IsTimeout(fault) == fault \in {"ReadTimeout", "ConnectTimeout"}
IsConnectionError(fault) == fault \in {"ConnectionError", "ConnectTimeout"}

\* the except clauses of _request, in source order; an exception matched by
\* neither clause propagates unchanged
TransportErrorConnFirst(fault) ==
    IF IsConnectionError(fault)
    THEN Raise(APIError(Str(<<"Connection failed">>), Num(503), PyNone))
    ELSE IF IsTimeout(fault)
    THEN Raise(APIError(Str(<<"Request timed out">>), Num(408), PyNone))
    ELSE Raise(ForeignError(fault))
TransportError(fault) ==
    IF IsTimeout(fault)
    THEN Raise(APIError(Str(<<"Request timed out">>), Num(408), PyNone))
    ELSE IF IsConnectionError(fault)
    THEN Raise(APIError(Str(<<"Connection failed">>), Num(503), PyNone))
    ELSE Raise(ForeignError(fault))

\* ACISClient._request up to the blocking session.request call: the request
\* handed to the transport; sent is the number of session.request calls
request(c, method, endpoint, params, json) ==
    [endpoint |-> endpoint,
     req |-> [method |-> method, url |-> c.base_url \o endpoint,
              params |-> params, json |-> json, timeout |-> c.timeout,
              headers |-> c.headers],
     sent |-> 1]

\* ACISClient._request from the return of session.request on.  net is what
\* the transport did: a fault, or a response [status_code, text].  resent is
\* the number of further session.request calls (the code has no retry loop),
\* classified records whether _handle_response ran.
request_result_retry(net) ==
    [resent |-> IF net.fault # "none" THEN 1 ELSE 0,
     classified |-> net.fault = "none",
     outcome |-> IF net.fault # "none"
                 THEN TransportError(net.fault)
                 ELSE handle_response([status_code |-> net.status_code, text |-> net.text])]
request_result(net) ==
    [resent |-> 0,
     classified |-> net.fault = "none",
     outcome |-> IF net.fault # "none"
                 THEN TransportError(net.fault)
                 ELSE handle_response([status_code |-> net.status_code, text |-> net.text])]

\* ------------------------------------------------------------ client facade
\* ACISClient.generate_portfolio
GeneratePayloadNotNone(strategy, max_positions, risk_tolerance, investment_amount) ==
    LET payload == Dict(<< <<"strategy", strategy>>,
                           <<"max_positions", max_positions>>,
                           <<"risk_tolerance", risk_tolerance>> >>) IN
    IF investment_amount # PyNone
    THEN DictSet(payload, "investment_amount", investment_amount)
    ELSE payload
GeneratePayload(strategy, max_positions, risk_tolerance, investment_amount) ==
    LET payload == Dict(<< <<"strategy", strategy>>,
                           <<"max_positions", max_positions>>,
                           <<"risk_tolerance", risk_tolerance>> >>) IN
    IF Truthy(investment_amount)
    THEN DictSet(payload, "investment_amount", investment_amount)
    ELSE payload

generate_portfolio(c, strategy, max_positions, risk_tolerance, investment_amount) ==
    request(c, "POST", <<"/", "portfolios", "/", "generate">>, PyNone,
            GeneratePayload(strategy, max_positions, risk_tolerance, investment_amount))

\* ACISClient.get_rebalance_suggestions
get_rebalance_suggestions(c, current_positions, strategy, market_cap, rebalance_threshold) ==
    request(c, "POST", <<"/", "portfolios", "/", "rebalance">>, PyNone,
            Dict(<< <<"current_positions", current_positions>>,
                    <<"strategy", strategy>>,
                    <<"market_cap", market_cap>>,
                    <<"rebalance_threshold", rebalance_threshold>> >>))

get_usage(c) == request(c, "GET", <<"/", "usage">>, PyNone, PyNone)
health_check(c) == request(c, "GET", <<"/", "health">>, PyNone, PyNone)
get_risk_levels(c) == request(c, "GET", <<"/", "risk-levels">>, PyNone, PyNone)
get_my_portfolios(c) ==
    request(c, "GET", <<"/", "user", "/", "portfolios">>, PyNone, PyNone)

\* f"/user/portfolios/{strategy}"
get_portfolio(c, strategy) ==
    request(c, "GET", <<"/", "user", "/", "portfolios", "/">> \o strategy.v,
            PyNone, PyNone)

\* f"/user/portfolios/{strategy}/history", params={"days": days}
get_portfolio_history(c, strategy, days) ==
    request(c, "GET",
            <<"/", "user", "/", "portfolios", "/">> \o strategy.v \o <<"/", "history">>,
            Dict(<< <<"days", days>> >>), PyNone)

\* convenience wrappers: risk_tolerance and investment_amount take the
\* defaults of generate_portfolio
get_value_portfolio(c, max_positions) ==
    generate_portfolio(c, Str(<<"value">>), max_positions, Str(<<"moderate">>), PyNone)
get_growth_portfolio(c, max_positions) ==
    generate_portfolio(c, Str(<<"growth">>), max_positions, Str(<<"moderate">>), PyNone)
get_dividend_portfolio(c, max_positions) ==
    generate_portfolio(c, Str(<<"dividend">>), max_positions, Str(<<"moderate">>), PyNone)
get_adaptive_portfolio(c, max_positions) ==
    generate_portfolio(c, Str(<<"adaptive">>), max_positions, Str(<<"moderate">>), PyNone)

\* ------------------------------------------------------------------- inputs
RECURSIVE SeqsUpTo(_, _)
SeqsUpTo(S, n) ==
    IF n = 0 THEN {<<>>}
    ELSE LET shorter == SeqsUpTo(S, n - 1) IN
         shorter \cup {Append(s, x) : s \in shorter, x \in S}

\* base_url arguments: absent, or any text of at most MaxUrlLen tokens
BaseUrlArgs == {PyNone} \cup {Str(s) : s \in SeqsUpTo({"/", "host"}, MaxUrlLen)}
ApiKeyArgs == {PyNone, Str(<<>>), Str(<<"acis_live_xxx">>)}
TimeoutArgs == {DefaultTimeout, 5}

Strategies == {Str(<<"value">>), Str(<<"growth_smallcap">>)}
MaxPositionsArgs == {Num(20), Num(5)}
RiskArgs == {Str(<<"moderate">>), Str(<<"aggressive">>)}
AmountArgs == {PyNone, Num(0), Num(1000)}
DaysArgs == {Num(30), Num(7)}
PositionsArgs == {List(<<>>), List(<< Dict(<< <<"ticker", Str(<<"AAPL">>)>> >>) >>)}

StatusCodes == {200, 201, 401, 422, 429, 500}
Faults == {"ReadTimeout", "ConnectTimeout", "ConnectionError", "TooManyRedirects"}

\* response bodies as sent on the wire
Q(s) == <<Quote, s, Quote>>
Bodies ==
    { <<"{">> \o Q("detail") \o <<":">> \o Q("boom") \o <<"}">>,
      <<"{">> \o Q("detail") \o <<":", "null", "}">>,
      <<"{">> \o Q("detail") \o <<":", Quote, Quote, "}">>,
      <<"{">> \o Q("detail") \o <<":">> \o Q("slow") \o <<",">>
              \o Q("reset_at") \o <<":">> \o Q("2024-01-01T00:00:00Z") \o <<"}">>,
      <<"{">> \o Q("status") \o <<":">> \o Q("healthy") \o <<"}">>,
      <<"{", "}">>,
      <<"[", "]">>,
      <<"null">>,
      <<"<html>Bad Gateway</html>">>,
      <<>> }

NoFault == "none"
NetOutcomes ==
    {[fault |-> NoFault, status_code |-> sc, text |-> b] : sc \in StatusCodes, b \in Bodies}
    \cup {[fault |-> f, status_code |-> 0, text |-> <<>>] : f \in Faults}

\* -------------------------------------------------------------------- state
VARIABLES
    client,        \* the ACISClient instance, NoClient before a successful construction
    ctor_args,     \* arguments of the last construction
    pc,            \* "idle", or "in_request" while a call blocks in session.request
    op,            \* name of the last operation
    call_args,     \* arguments of the last public method call, by name
    last_endpoint, \* endpoint argument of its _request
    last_req,      \* the HTTP request handed to session.request by the last call
    net,           \* what the transport did with it
    classified,    \* whether _handle_response ran in the last call
    result,        \* outcome of the last operation, as seen by the caller
    calls,         \* public method calls made
    issued         \* session.request calls made

vars == <<client, ctor_args, pc, op, call_args, last_endpoint, last_req, net, classified, result, calls, issued>>

NoRequest == [method |-> "", url |-> <<>>, params |-> PyNone, json |-> PyNone,
              timeout |-> 0, headers |-> <<>>]
NoNet == [fault |-> NoFault, status_code |-> 0, text |-> <<>>]
NoArgs == [api_key |-> PyNone, base_url |-> PyNone, timeout |-> 0]

Init ==
    /\ client = NoClient
    /\ ctor_args = NoArgs
    /\ pc = "idle"
    /\ op = "none"
    /\ call_args = Dict(<<>>)
    /\ last_endpoint = <<>>
    /\ last_req = NoRequest
    /\ net = NoNet
    /\ classified = FALSE
    /\ result = NoOutcome
    /\ calls = 0
    /\ issued = 0

\* client = ACISClient(api_key, base_url, timeout)
Construct ==
    \E k \in ApiKeyArgs, b \in BaseUrlArgs, t \in TimeoutArgs :
        LET r == ACISClient_init(k, b, t) IN
        /\ pc = "idle"
        /\ ~client.exists
        /\ client' = r.client
        /\ ctor_args' = [api_key |-> k, base_url |-> b, timeout |-> t]
        /\ op' = "__init__"
        /\ result' = r.outcome
        /\ issued' = issued + r.sent
        /\ UNCHANGED <<pc, call_args, last_endpoint, last_req, net, classified, calls>>

\* a public method is entered and runs up to the blocking session.request
\* call of its _request; r is what _request hands to the transport
Call(name, args, r) ==
    /\ pc = "idle"
    /\ client.exists
    /\ calls < MaxCalls
    /\ pc' = "in_request"
    /\ op' = name
    /\ call_args' = Dict(args)
    /\ last_endpoint' = r.endpoint
    /\ last_req' = r.req
    /\ net' = NoNet
    /\ classified' = FALSE
    /\ result' = NoOutcome
    /\ calls' = calls + 1
    /\ issued' = issued + r.sent
    /\ UNCHANGED <<client, ctor_args>>

GeneratePortfolio ==
    \E s \in Strategies, m \in MaxPositionsArgs, rt \in RiskArgs, a \in AmountArgs :
        Call("generate_portfolio",
             << <<"strategy", s>>, <<"max_positions", m>>, <<"risk_tolerance", rt>>,
                <<"investment_amount", a>> >>,
             generate_portfolio(client, s, m, rt, a))

GetRebalanceSuggestions ==
    \E p \in PositionsArgs, s \in Strategies :
        Call("get_rebalance_suggestions",
             << <<"current_positions", p>>, <<"strategy", s>> >>,
             get_rebalance_suggestions(client, p, s, Str(<<"large">>), Float("0.02")))

GetUsage == Call("get_usage", <<>>, get_usage(client))
HealthCheck == Call("health_check", <<>>, health_check(client))
GetRiskLevels == Call("get_risk_levels", <<>>, get_risk_levels(client))
GetMyPortfolios == Call("get_my_portfolios", <<>>, get_my_portfolios(client))
GetPortfolio == \E s \in Strategies : Call("get_portfolio", << <<"strategy", s>> >>, get_portfolio(client, s))
GetPortfolioHistory ==
    \E s \in Strategies, d \in DaysArgs :
        Call("get_portfolio_history", << <<"strategy", s>>, <<"days", d>> >>,
             get_portfolio_history(client, s, d))
GetValuePortfolio ==
    \E m \in MaxPositionsArgs :
        Call("get_value_portfolio", << <<"max_positions", m>> >>,
             get_value_portfolio(client, m))
GetGrowthPortfolio ==
    \E m \in MaxPositionsArgs :
        Call("get_growth_portfolio", << <<"max_positions", m>> >>,
             get_growth_portfolio(client, m))
GetDividendPortfolio ==
    \E m \in MaxPositionsArgs :
        Call("get_dividend_portfolio", << <<"max_positions", m>> >>,
             get_dividend_portfolio(client, m))
GetAdaptivePortfolio ==
    \E m \in MaxPositionsArgs :
        Call("get_adaptive_portfolio", << <<"max_positions", m>> >>,
             get_adaptive_portfolio(client, m))

\* session.request returns or raises; the rest of _request runs and the
\* public method returns its value or propagates its exception
Complete ==
    \E n \in NetOutcomes :
        LET r == request_result(n) IN
        /\ pc = "in_request"
        /\ pc' = "idle"
        /\ net' = n
        /\ classified' = r.classified
        /\ result' = r.outcome
        /\ issued' = issued + r.resent
        /\ UNCHANGED <<client, ctor_args, op, call_args, last_endpoint, last_req, calls>>

Next ==
    \/ Construct
    \/ GeneratePortfolio
    \/ GetRebalanceSuggestions
    \/ GetUsage
    \/ HealthCheck
    \/ GetRiskLevels
    \/ GetMyPortfolios
    \/ GetPortfolio
    \/ GetPortfolioHistory
    \/ GetValuePortfolio
    \/ GetGrowthPortfolio
    \/ GetDividendPortfolio
    \/ GetAdaptivePortfolio
    \/ Complete

Spec == Init /\ [][Next]_vars

\* ------------------------------------------------------------------ claims
Taxonomy == {"AuthenticationError", "RateLimitError", "ValidationError", "APIError"}

\* the last operation was a public method call and it has returned or raised
Done == pc = "idle" /\ op \notin {"none", "__init__"}

\* the last call received an HTTP response (status, body) from the server
GotResponse == Done /\ net.fault = NoFault

\* the body of that response as the classifier sees it
Body == DecodeBody([status_code |-> net.status_code, text |-> net.text])

Raised(cls) == result.kind = "raise" /\ result.exc.cls = cls

\* C1: for every response handed to the classifier the outcome is fixed by
\* the status code: 200 returns the decoded body, 401 raises an
\* Authentication error, 429 a RateLimit error whose reset_at is the body's
\* reset_at when present and absent otherwise, 422 a Validation error, any
\* other status a Generic API error; every non-200 outcome carries the
\* status as status_code and the decoded body as response.
C1_ClassifiedByStatus ==
    GotResponse =>
        LET sc == net.status_code IN
        /\ sc = 200 => result = Return(Body)
        /\ sc # 200 => /\ result.kind = "raise"
                       /\ result.exc.status_code = Num(sc)
                       /\ result.exc.response = Body
        /\ sc = 401 => Raised("AuthenticationError")
        /\ sc = 429 => /\ Raised("RateLimitError")
                       /\ result.exc.reset_at =
                            IF Body.t = "dict" /\ HasKey(Body, "reset_at")
                            THEN Get(Body, "reset_at", PyNone) ELSE PyNone
        /\ sc = 422 => Raised("ValidationError")
        /\ sc \notin {200, 401, 429, 422} => Raised("APIError")

\* C2: every call either returns the decoded body or raises one of the four
\* taxonomy errors, whatever the transport outcome and whatever the status
\* and body of the response; no other exception reaches the caller.
C2_OnlyTypedErrors ==
    Done => \/ GotResponse /\ result = Return(Body)
            \/ result.kind = "raise" /\ result.exc.cls \in Taxonomy

\* C3: a timeout raises APIError 408 "Request timed out" with no response
\* body, a connection failure raises APIError 503 "Connection failed" with
\* no response body, a fault that is both is reported as 408, and the
\* classifier is not run in either case.
C3_TransportFaults ==
    /\ (Done /\ net.fault \in {"ReadTimeout", "ConnectTimeout"}) =>
          /\ result = Raise(APIError(Str(<<"Request timed out">>), Num(408), PyNone))
          /\ ~classified
    /\ (Done /\ net.fault = "ConnectionError") =>
          /\ result = Raise(APIError(Str(<<"Connection failed">>), Num(503), PyNone))
          /\ ~classified

C3_Witness ==
    /\ Done
    /\ net.fault = "ConnectTimeout"
    /\ result.exc.status_code = Num(408)
    /\ ~classified

\* C4: a body that is not valid JSON never makes the classifier fail; the
\* mapping {detail: raw text} stands in for the body: 200 returns it, and a
\* non-200 raises the table's error with the raw text as message and the
\* mapping as response.
C4_NonJsonBody ==
    (GotResponse /\ ~JsonLoads(net.text).ok) =>
        LET sc == net.status_code
            raw == Str(net.text)
            synth == Dict(<< <<"detail", raw>> >>) IN
        /\ sc = 200 => result = Return(synth)
        /\ sc = 401 => result = Raise(AuthenticationError(raw, Num(401), synth))
        /\ sc = 429 => result = Raise(RateLimitError(raw, PyNone, Num(429), synth))
        /\ sc = 422 => result = Raise(ValidationError(raw, Num(422), synth))
        /\ sc \notin {200, 401, 429, 422} => result = Raise(APIError(raw, Num(sc), synth))

C4_Witness ==
    /\ GotResponse
    /\ ~JsonLoads(net.text).ok
    /\ Len(net.text) > 0
    /\ net.status_code = 422
    /\ Raised("ValidationError")
    /\ result.exc.message = Str(net.text)

\* C5: construction with an empty or absent credential fails with an
\* Authentication error and leaves no client; construction, successful or
\* not, issues no HTTP request, and as long as no client exists no request
\* has been issued.
C5_CredentialRequired ==
    /\ (op = "__init__" /\ ctor_args.api_key \in {PyNone, Str(<<>>)}) =>
          /\ Raised("AuthenticationError")
          /\ ~client.exists
    /\ op = "__init__" => issued = 0
    /\ ~client.exists => (issued = 0 /\ pc = "idle")

C5_Witness ==
    /\ op = "__init__"
    /\ ctor_args.api_key = Str(<<>>)
    /\ Raised("AuthenticationError")
    /\ ~client.exists
    /\ issued = 0

\* C6: every public method call, wrappers included, issues exactly one HTTP
\* request: after n calls n requests have been issued, whatever the calls'
\* outcomes, and a failed attempt is raised to the caller at once.
C6_OneRequestPerCall ==
    /\ issued = calls
    /\ (Done /\ (net.fault # NoFault \/ net.status_code # 200)) => result.kind = "raise"

C6_Witness ==
    /\ Done
    /\ op = "get_value_portfolio"
    /\ net.fault = "ReadTimeout"
    /\ result.kind = "raise"
    /\ calls = 2
    /\ issued = 2

\* C7: the body of generate_portfolio holds strategy, max_positions and
\* risk_tolerance as passed; it holds investment_amount, at the value
\* passed, exactly when a nonzero amount was passed, so that the body for
\* an amount of zero is the body for no amount.
C7_InvestmentAmountWhenTruthy ==
    op = "generate_portfolio" =>
        LET amount == Get(call_args, "investment_amount", PyNone)
            body == last_req.json
            base == << <<"strategy", Get(call_args, "strategy", PyNone)>>,
                       <<"max_positions", Get(call_args, "max_positions", PyNone)>>,
                       <<"risk_tolerance", Get(call_args, "risk_tolerance", PyNone)>> >> IN
        /\ body.t = "dict"
        /\ amount \in {PyNone, Num(0)} => body.v = base
        /\ amount \notin {PyNone, Num(0)} =>
              body.v = Append(base, <<"investment_amount", amount>>)

C7_Witness ==
    /\ op = "generate_portfolio"
    /\ Get(call_args, "investment_amount", PyNone) = Num(0)
    /\ Len(last_req.json.v) = 3
    /\ ~HasKey(last_req.json, "investment_amount")

EndsInSlash(u) == Len(u) > 0 /\ u[Len(u)] = "/"
Constructed == client.exists /\ ctor_args.base_url.t = "str"

\* C8 as stated: the stored base URL is the supplied one without its final
\* character when that is "/", and the supplied one itself otherwise (read
\* for a base URL that was supplied, that is a non-empty one).
C8_StripsExactlyOneSlash ==
    (Constructed /\ Len(ctor_args.base_url.v) > 0) =>
        LET u == ctor_args.base_url.v IN
        client.base_url = IF EndsInSlash(u) THEN SubSeq(u, 1, Len(u) - 1) ELSE u

\* C8 amended: the stored base URL is the supplied one, or the default
\* production URL when the supplied one is empty or absent, with every
\* trailing slash removed: it is the longest prefix that does not end in "/".
C8_StripsAllTrailingSlashes ==
    client.exists =>
        LET arg == ctor_args.base_url
            u == IF arg = PyNone \/ arg = Str(<<>>) THEN DEFAULT_BASE_URL.v ELSE arg.v
            stored == client.base_url IN
        /\ Len(stored) <= Len(u)
        /\ stored = SubSeq(u, 1, Len(stored))
        /\ \A i \in (Len(stored) + 1)..Len(u) : u[i] = "/"
        /\ ~EndsInSlash(stored)

C8_Witness ==
    /\ Constructed
    /\ ctor_args.base_url.v = <<"/", "/">>
    /\ client.base_url = <<>>

\* the texts a base URL argument ranges over
UrlTexts == {b.v : b \in BaseUrlArgs \ {PyNone}}
RequestIssued == client.exists /\ op \notin {"none", "__init__"}

\* C9 as stated: for every base URL u not ending in "/" and every endpoint
\* p, a client built with u and a client built with u + "/" both send their
\* request to u + p.
C9_SlashInsensitiveUrl ==
    \A u \in UrlTexts :
        (/\ ~EndsInSlash(u)
         /\ RequestIssued
         /\ ctor_args.base_url \in {Str(u), Str(Append(u, "/"))})
        => last_req.url = u \o last_endpoint

\* C9 amended: the same, for every non-empty base URL u not ending in "/".
C9_SlashInsensitiveNonEmptyUrl ==
    \A u \in UrlTexts :
        (/\ Len(u) > 0
         /\ ~EndsInSlash(u)
         /\ RequestIssued
         /\ ctor_args.base_url \in {Str(u), Str(Append(u, "/"))})
        => last_req.url = u \o last_endpoint

C9_Witness ==
    /\ RequestIssued
    /\ ctor_args.base_url = Str(<<"host", "/">>)
    /\ last_endpoint = <<"/", "health">>
    /\ last_req.url = <<"host", "/", "health">>

\* the default message of the classifier's branch for a status
DefaultMessage(sc) ==
    CASE sc = 401 -> Str(<<"Invalid API key">>)
      [] sc = 429 -> Str(<<"Rate limit exceeded">>)
      [] sc = 422 -> Str(<<"Validation error">>)
      [] OTHER    -> Str(<<"API error: ">> \o IntToStr(sc))

\* C10: for every non-200 response an error is raised whose message is the
\* body's detail when the body supplies a non-empty detail, and the default
\* message of the status when detail is absent, null or empty.
C10_DetailOrDefault ==
    (GotResponse /\ net.status_code # 200) =>
        LET detail == IF Body.t = "dict" THEN Get(Body, "detail", PyNone) ELSE PyNone IN
        /\ result.kind = "raise"
        /\ result.exc.message =
              IF detail.t = "str" /\ Len(detail.v) > 0 THEN detail
              ELSE DefaultMessage(net.status_code)

\* a status code of the 2xx class
Is2xx(sc) == 200 <= sc /\ sc <= 299

\* C11: a call ends in a Generic API error only with a non-2xx status
\* returned by the server, or with a locally made 408 or 503 that has no
\* response body after a transport failure; a response with a 2xx status
\* never produces an error.
C11_GenericErrorOnlyNon2xx ==
    /\ (Done /\ Raised("APIError")) =>
          \/ /\ net.fault = NoFault
             /\ ~Is2xx(net.status_code)
             /\ result.exc.status_code = Num(net.status_code)
          \/ /\ net.fault # NoFault
             /\ result.exc.status_code \in {Num(408), Num(503)}
             /\ result.exc.response = PyNone
    /\ (GotResponse /\ Is2xx(net.status_code)) => result.kind = "return"

====
